---- MODULE Spec2Model ----
(***************************************************************************)
(* Hardware-telemetry samplers: log.c, util_logger.c, logger.c,            *)
(* combined_gpu_logger.c and cpu_logger.c.                                 *)
(*                                                                         *)
(* Each program is a state machine of its own; the variable prog names the *)
(* program that runs, and the variables of the other programs stay at      *)
(* their idle values.  The harness "calc" applies the two utilization      *)
(* calculators to pairs of /proc/stat lines drawn from a bounded set.      *)
(*                                                                         *)
(* Numbers.  unsigned long long arithmetic is taken modulo 2^ULL_BITS; the *)
(* width is scaled down from 64 so that wrapped differences stay inside    *)
(* the integers of the model checker while remaining far above every       *)
(* drawn counter value.  A double is modelled as the exact fraction        *)
(* num/den (den > 0); -1.0 is the fraction -1/1.                           *)
(***************************************************************************)
EXTENDS Integers, Sequences, FiniteSets, TLC

\* ------------------------------------------------------------------ bounds
\* Largest sum of the tick fields of a drawn /proc/stat line.
MaxTick == 2
\* Width, in bits, at which unsigned long long is modelled.
ULL_BITS == 16
\* Longest bounded run (-d / -n / -t argument), in samples.
MaxSamples == 2
\* Clock resolution: time units per second.  The sampling interval of every
\* program is one second.
UnitsPerSecond == 2

ULL_MOD == 2 ^ ULL_BITS

\* Conversion to unsigned long long (wrap-around).
U64(x) == x % ULL_MOD

\* ------------------------------------------------------------ /proc/stat
\* A per-core accounting line is its sequence of numeric fields, in the
\* order user nice system idle iowait irq softirq steal guest guest_nice.
\* Lines shorter than 10 fields model older kernels and truncated lines.
LineLens == {3, 4, 8, 10}

RECURSIVE SumSeq(_)
SumSeq(s) == IF s = <<>> THEN 0 ELSE Head(s) + SumSeq(Tail(s))

FieldSeqs(n) == { f \in [1..n -> 0..MaxTick] : SumSeq(f) <= MaxTick }

\* The end-to-end example of the specification: user 100 -> 150, idle 900 -> 950.
ExamplePrev == <<100, 0, 0, 900, 0, 0, 0, 0>>
ExampleCurr == <<150, 0, 0, 950, 0, 0, 0, 0>>

SampleLines == UNION { FieldSeqs(n) : n \in LineLens } \cup {ExamplePrev, ExampleCurr}

Field(f, k) == IF k <= Len(f) THEN f[k] ELSE 0

\* ----------------------------------------------------------------- log.c
\* CpuTime as filled by the sscanf of get_cpu_core_times from one line: the
\* array element is zeroed first, sscanf stores the fields it converts, and
\* the flag is set when the label and at least 8 numbers were converted.
ParseCpuTime(f) ==
    [ user |-> Field(f, 1), nice |-> Field(f, 2), system |-> Field(f, 3),
      idle |-> Field(f, 4), iowait |-> Field(f, 5), irq |-> Field(f, 6),
      softirq |-> Field(f, 7), steal |-> Field(f, 8),
      guest |-> Field(f, 9), guest_nice |-> Field(f, 10),
      successfully_parsed |-> (1 + (IF Len(f) > 10 THEN 10 ELSE Len(f)) >= 1 + 8) ]

Unavailable == [num |-> -1, den |-> 1]
Zero == [num |-> 0, den |-> 1]
Hundred == [num |-> 100, den |-> 1]

\* Clamp without its upper limit.
Clamp_NoUpper(u) == IF u.num < 0 THEN Zero ELSE u

\* (util < 0.0) ? 0.0 : (util > 100.0 ? 100.0 : util)
Clamp(u) ==
    IF u.num < 0 THEN Zero
    ELSE IF u.num > 100 * u.den THEN Hundred
    ELSE u

\* The delta formula of calculate_core_utilization (lines 122-133), for two
\* samples that passed the flag test.
DeltaFormula(prev_times, curr_times) ==
    LET prev_idle == U64(prev_times.idle + prev_times.iowait)
        curr_idle == U64(curr_times.idle + curr_times.iowait)
        prev_non_idle == U64(prev_times.user + prev_times.nice + prev_times.system
                             + prev_times.irq + prev_times.softirq + prev_times.steal)
        curr_non_idle == U64(curr_times.user + curr_times.nice + curr_times.system
                             + curr_times.irq + curr_times.softirq + curr_times.steal)
        prev_total == U64(prev_idle + prev_non_idle)
        curr_total == U64(curr_idle + curr_non_idle)
        total_diff == U64(curr_total - prev_total)
        idle_diff == U64(curr_idle - prev_idle)
    IN  IF total_diff = 0 THEN Zero
        ELSE IF curr_total < prev_total \/ curr_idle < prev_idle THEN Zero
        ELSE Clamp([num |-> U64(total_diff - idle_diff) * 100, den |-> total_diff])

\* The flag test looking at the current sample only.
FlagTest_CurrOnly(prev_times, curr_times) == curr_times.successfully_parsed

\* The test of line 121: both samples carry the success flag.
FlagTest(prev_times, curr_times) ==
    prev_times.successfully_parsed /\ curr_times.successfully_parsed

calculate_core_utilization(prev_times, curr_times) ==
    IF ~FlagTest(prev_times, curr_times)
    THEN Unavailable
    ELSE DeltaFormula(prev_times, curr_times)

\* --------------------------------------------------------- util_logger.c
MAX_CORES == 8

\* One cpu_snap_t entry as read_cpu_snapshot leaves it for a core whose line
\* has the fields f: n counts the conversions of sscanf (the id, then up to
\* 10 numbers); lines with n < 5 are skipped and leave the zeroed entry.
SnapEntry(f) ==
    LET n == 1 + (IF Len(f) > 10 THEN 10 ELSE Len(f))
    IN  IF n < 5
        THEN [total |-> 0, idle_like |-> 0, present |-> FALSE]
        ELSE [ total |-> U64(SumSeq(SubSeq(f, 1, n - 1))),
               idle_like |-> U64(Field(f, 4) + (IF n >= 6 THEN Field(f, 5) ELSE 0)),
               present |-> TRUE ]

AbsentEntry == [total |-> 0, idle_like |-> 0, present |-> FALSE]

delta_u64(a, b) == IF b >= a THEN b - a ELSE U64(b + ((ULL_MOD - 1) - a) + 1)

\* The per-core computation of main (lines 151-161) on the entries of one
\* core in the snapshots s1 and s2.
core_util(e1, e2) ==
    IF e1.present /\ e2.present
    THEN LET dt == delta_u64(e1.total, e2.total)
             di == delta_u64(e1.idle_like, e2.idle_like)
         IN  IF dt > 0 /\ di <= dt
             THEN [num |-> 100 * (dt - di), den |-> dt]
             ELSE Unavailable
    ELSE Unavailable

\* ---------------------------------------------------- /proc/stat contents
\* Declared core numbers that /proc/stat may list.
CoreIds == 0..1

\* Lines a core may show while a program runs: a truncated line, and two
\* full lines (the second with the guest fields).
LoopLines == { <<1, 0, 0, 1>>, <<1, 0, 0, 1, 0, 0, 0, 0>>, <<3, 0, 0, 2, 0, 0, 0, 0, 1, 0>> }

NoLine == <<>>

\* The per-core lines of a file, in file order (ascending core number), for
\* an assignment m of a line or NoLine to every core number.  The aggregate
\* "cpu" line and the lines that do not start with "cpu" are always there
\* and are skipped by both parsers (isdigit(line[3])); they are left out.
RECURSIVE LinesFrom(_, _)
LinesFrom(m, id) ==
    IF id \notin DOMAIN m THEN <<>>
    ELSE (IF m[id] = NoLine THEN <<>> ELSE << [id |-> id, f |-> m[id]] >>)
         \o LinesFrom(m, id + 1)

StatFiles == { LinesFrom(m, 0) : m \in [CoreIds -> LoopLines \cup {NoLine}] }

\* What opening /proc/stat can give: no file (fopen fails) or a content.
NoFile == << [id |-> -1, f |-> <<>>] >>
StatReads == StatFiles \cup {NoFile}

\* The aggregate line "cpu  4 0 0 3 ...": no digit follows "cpu" (id = -1).
AggLine == [id |-> -1, f |-> <<4, 0, 0, 3, 0, 0, 0, 0>>]

\* strncmp(line, "cpu", 3) == 0 && isdigit(line[3]): the per-core lines.
IsCoreLine(l) == l.id >= 0
CoreLines(file) == SelectSeq(file, IsCoreLine)

\* Files with more than the lines of StatFiles: cores 0, 1 and 3 without
\* core 2; the aggregate line before the cores; cores 8 and 9 after core 0.
File013 ==
    << [id |-> 0, f |-> <<1, 0, 0, 1, 0, 0, 0, 0>>], [id |-> 1, f |-> <<2, 0, 0, 1, 0, 0, 0, 0>>],
       [id |-> 3, f |-> <<1, 0, 0, 3, 0, 0, 0, 0>>] >>
FileAgg ==
    << AggLine, [id |-> 0, f |-> <<2, 0, 0, 1, 0, 0, 0, 0>>],
       [id |-> 1, f |-> <<2, 0, 0, 2, 0, 0, 0, 0>>] >>
FileHigh ==
    << [id |-> 0, f |-> <<3, 0, 0, 2, 0, 0, 0, 0, 1, 0>>], [id |-> 8, f |-> <<5, 0, 0, 5, 0, 0, 0, 0>>],
       [id |-> 9, f |-> <<6, 0, 0, 6, 0, 0, 0, 0>>] >>
RowFiles == StatFiles \cup {File013, FileAgg, FileHigh}

\* get_cpu_core_times: [ret, arr]; arr = <<>> stands for the NULL pointer
\* (on fopen failure the caller's pointer is left as it was, which is NULL at
\* both call sites).  The array has one element per cpuN line, filled in
\* file order.
get_cpu_core_times(file) ==
    IF file = NoFile THEN [ret |-> -1, arr |-> <<>>]
    ELSE IF Len(CoreLines(file)) = 0 THEN [ret |-> 0, arr |-> <<>>]
    ELSE [ret |-> Len(CoreLines(file)),
          arr |-> [k \in 1..Len(CoreLines(file)) |-> ParseCpuTime(CoreLines(file)[k].f)]]

\* What a read past the end of a malloc'd CpuTime array can yield.
GarbageSamples == { ParseCpuTime(<<>>), ParseCpuTime(<<2, 0, 0, 0, 0, 0, 0, 0>>) }

NA == [num |-> 0, den |-> 0]
NoRow == [sample |-> -1, cols |-> <<>>]

\* ---------------------------------------------------------- counter files
\* The content of a counter file is a sequence of characters.
MaxBufLen == 3

Spaces == {" ", "\t", "\n", "\r"}
Digits == {"0", "1", "2", "3", "4", "5", "6", "7", "8", "9"}

DigitVal(ch) ==
    CASE ch = "0" -> 0 [] ch = "1" -> 1 [] ch = "2" -> 2 [] ch = "3" -> 3 [] ch = "4" -> 4
      [] ch = "5" -> 5 [] ch = "6" -> 6 [] ch = "7" -> 7 [] ch = "8" -> 8 [] ch = "9" -> 9

\* Characters the bounded contents are made of.
BufChars == {" ", "\n", "-", "0", "1", "4", "a"}

RECURSIVE BufsOfLen(_)
BufsOfLen(n) ==
    IF n = 0 THEN { <<>> }
    ELSE { Append(b, ch) : b \in BufsOfLen(n - 1), ch \in BufChars }

ExampleBufs ==
    { <<" ", " ", "-", "4", "2", "\n">>, <<"a", "b", "c">>, <<"4", "2", "\n">>,
      <<"-", "1", "\n">>, <<"0", "\n">>, <<"\t", "7", "5", "0", "0", "0">> }

FileBufs == UNION { BufsOfLen(n) : n \in 0..MaxBufLen } \cup ExampleBufs

\* while (*s && (*s == ' ' || *s == '\t' || *s == '\n' || *s == '\r')) s++;
RECURSIVE SkipSpaces(_)
SkipSpaces(str) ==
    IF str # <<>> /\ Head(str) \in Spaces THEN SkipSpaces(Tail(str)) ELSE str

\* while (*s >= '0' && *s <= '9') { seen = 1; v = v * 10 + (*s - '0'); s++; }
\* [seen, v]
RECURSIVE DigitLoop(_, _, _)
DigitLoop(str, seen, v) ==
    IF str # <<>> /\ Head(str) \in Digits
    THEN DigitLoop(Tail(str), TRUE, v * 10 + DigitVal(Head(str)))
    ELSE [seen |-> seen, v |-> v]

\* A parser that does not skip the leading white space.
fast_parse_int_NoSkip(str) ==
    LET neg == str # <<>> /\ Head(str) = "-"
        r == DigitLoop(IF neg THEN Tail(str) ELSE str, FALSE, 0)
    IN  IF ~r.seen THEN -1 ELSE IF neg THEN -r.v ELSE r.v

\* fast_parse_int.  The values of the bounded contents fit an int, so the
\* casts of the return statement change nothing.
fast_parse_int(str) ==
    LET t == SkipSpaces(str)
        neg == t # <<>> /\ Head(t) = "-"
        r == DigitLoop(IF neg THEN Tail(t) ELSE t, FALSE, 0)
    IN  IF ~r.seen THEN -1 ELSE IF neg THEN -r.v ELSE r.v

\* read_int_fd: -1 when fd < 0, when lseek or read fails (a stale
\* descriptor), when read returns no bytes; else fast_parse_int of the
\* bytes read.  (logger.c and combined_gpu_logger.c have the same text.)
read_int_fd(f, buf) ==
    IF f = "none" THEN -1
    ELSE IF f = "stale" THEN -1
    ELSE IF Len(buf) <= 0 THEN -1
    ELSE fast_parse_int(buf)

\* read_int_file of cpu_logger.c: -1 when open fails, when read fails or
\* returns no bytes; else fast_parse_int of the bytes read.
read_int_file(src, buf) ==
    IF src = "absent" THEN -1
    ELSE IF src = "stale" THEN -1
    ELSE IF Len(buf) <= 0 THEN -1
    ELSE fast_parse_int(buf)

\* -------------------------------------------------------------- variables
VARIABLES
    prog,        \* the program that runs
    pc,          \* its position
    c_prev,      \* calc harness: the earlier line
    c_curr,      \* calc harness: the later line
    c_log,       \* calc harness: result of log.c's calculator
    c_util,      \* calc harness: result of util_logger.c's computation
    p_src,       \* parse harness: the file is "absent", "stale" (reads fail) or "present"
    p_buf,       \* parse harness: the characters a read of the file returns
    p_fd_ret,    \* parse harness: what read_int_fd returned
    p_file_ret,  \* parse harness: what read_int_file returned
    now,         \* monotonic clock, in units
    t0,          \* clock value when the first iteration's work started
    work,        \* time one tick's work takes (fixed for the run)
    tick,        \* number of loop iterations started
    tick_start,  \* clock value when the current iteration started
    header,      \* output file: number of counter columns of the header, -1 if none
    rows,        \* output file: number of data rows written
    last_row,    \* output file: the last data row written
    exit_status, \* -1 while running
    keep_running, prev_core_stats, curr_core_stats, num_cpu_cores,
    prev_num_cpu_cores, current_num_cpu_cores, csv_seconds_counter,
    quiet_mode, csv_file, run_duration_seconds,
    fed_flags,   \* success flags of the sample pairs that reached the delta formula
    sig_pc,      \* position of log.c when SIGINT arrived, "none" before
    rows_at_sig, \* rows written when SIGINT arrived
    heap,        \* log.c: the blocks malloc and strdup returned and free has not yet taken
    bad_free,    \* log.c: free was called on a block that was not allocated
    prev_addr, curr_addr,        \* log.c: the addresses in prev_core_stats and curr_core_stats
    num_custom_sensors, custom_sensor_paths, custom_sensor_values,
    s1, s2, samples, sample_idx, interval_sec,   \* util_logger.c
    seconds,     \* logger.c, combined_gpu_logger.c, cpu_logger.c: the -t argument
    loop_i,      \* their loop index (i; named sample in cpu_logger.c)
    next,        \* their absolute wake-up anchor, in clock units
    fd,          \* fd_temp, fd_freq, fd_util, fd_pwrlvl, fd_thr
    node,        \* the sysfs node behind each of them
    node_events, \* number of node changes so far
    cpu_dir, thermal_dir,        \* cpu_logger.c: what readdir returns, in order
    cpus, thermal_zones          \* cpu_logger.c: the tables filled by the scans

calcVars == <<c_prev, c_curr, c_log, c_util, p_src, p_buf, p_fd_ret, p_file_ret>>
clockVars == <<now, t0, work, tick, tick_start>>
outVars == <<header, rows, last_row>>
logVars == <<keep_running, prev_core_stats, curr_core_stats, num_cpu_cores,
             prev_num_cpu_cores, current_num_cpu_cores, csv_seconds_counter,
             quiet_mode, csv_file, run_duration_seconds, fed_flags, sig_pc, rows_at_sig,
             heap, bad_free, prev_addr, curr_addr,
             num_custom_sensors, custom_sensor_paths, custom_sensor_values>>
memVars == <<heap, bad_free, prev_addr, curr_addr>>
sensorVars == <<num_custom_sensors, custom_sensor_paths, custom_sensor_values>>

utilVars == <<s1, s2, samples, sample_idx, interval_sec>>

loopVars == <<seconds, loop_i, next>>
gpuVars == <<fd, node, node_events>>
cpuVars == <<cpu_dir, thermal_dir, cpus, thermal_zones>>

vars == <<prog, pc, exit_status, calcVars, clockVars, outVars, logVars, utilVars,
          loopVars, gpuVars, cpuVars>>

NoResult == [num |-> 0, den |-> 0]

LinesIdle == c_prev = <<>> /\ c_curr = <<>> /\ c_log = NoResult /\ c_util = NoResult
ParseIdle == p_src = "absent" /\ p_buf = <<>> /\ p_fd_ret = 0 /\ p_file_ret = 0
CalcIdle == LinesIdle /\ ParseIdle

ClockStart == now = 0 /\ t0 = 0 /\ work \in 1..(UnitsPerSecond - 1) /\ tick = 0 /\ tick_start = 0
ClockIdle == now = 0 /\ t0 = 0 /\ work = 0 /\ tick = 0 /\ tick_start = 0

OutStart == header = -1 /\ rows = 0 /\ last_row = NoRow

\* Nothing allocated: the pointers are NULL (lines 34-35, 229-230, 272).
NullPtr == 0
MemIdle ==
    /\ heap = {} /\ bad_free = FALSE /\ prev_addr = NullPtr /\ curr_addr = NullPtr
    /\ num_custom_sensors = 0 /\ custom_sensor_paths = <<>> /\ custom_sensor_values = <<>>

LogIdle ==
    /\ keep_running = TRUE /\ prev_core_stats = <<>> /\ curr_core_stats = <<>>
    /\ num_cpu_cores = 0 /\ prev_num_cpu_cores = 0 /\ current_num_cpu_cores = 0
    /\ csv_seconds_counter = 0 /\ quiet_mode = FALSE /\ csv_file = "null"
    /\ run_duration_seconds = -1 /\ fed_flags = {} /\ sig_pc = "none" /\ rows_at_sig = 0
    /\ MemIdle

\* memset(snap, 0, sizeof(*snap))
ZeroSnap == [c \in 0..(MAX_CORES - 1) |-> AbsentEntry]

UtilIdle ==
    /\ s1 = ZeroSnap /\ s2 = ZeroSnap /\ samples = -1 /\ sample_idx = 0
    /\ interval_sec = 1

AllCounters == {"temp", "freq", "util", "pwrlvl", "thr"}

LoopIdle == seconds = 0 /\ loop_i = 0 /\ next = 0

GpuIdle ==
    /\ fd = [c \in AllCounters |-> "none"] /\ node = [c \in AllCounters |-> "absent"]
    /\ node_events = 0

CpuIdle == cpu_dir = <<>> /\ thermal_dir = <<>> /\ cpus = <<>> /\ thermal_zones = <<>>

\* ---------------------------------------------------------- calc harness
InitCalc ==
    /\ prog = "calc"
    /\ pc = "input"
    /\ exit_status = -1
    /\ c_prev \in SampleLines
    /\ c_curr \in SampleLines
    /\ c_log = NoResult
    /\ c_util = NoResult
    /\ ParseIdle
    /\ ClockIdle /\ OutStart /\ LogIdle /\ UtilIdle /\ LoopIdle /\ GpuIdle /\ CpuIdle

ApplyLogCalc ==
    /\ prog = "calc" /\ pc = "input"
    /\ c_log' = calculate_core_utilization(ParseCpuTime(c_prev), ParseCpuTime(c_curr))
    /\ pc' = "log_done"
    /\ UNCHANGED <<prog, exit_status, c_prev, c_curr, c_util, p_src, p_buf, p_fd_ret, p_file_ret, clockVars, outVars, logVars, utilVars, loopVars, gpuVars, cpuVars>>

ApplyUtilCalc ==
    /\ prog = "calc" /\ pc = "log_done"
    /\ c_util' = core_util(SnapEntry(c_prev), SnapEntry(c_curr))
    /\ pc' = "done"
    /\ UNCHANGED <<prog, exit_status, c_prev, c_curr, c_log, p_src, p_buf, p_fd_ret, p_file_ret, clockVars, outVars, logVars, utilVars, loopVars, gpuVars, cpuVars>>

NextCalc == ApplyLogCalc \/ ApplyUtilCalc

SpecCalc == InitCalc /\ [][NextCalc]_vars

\* --------------------------------------------------------- parse harness
\* The readers of counter files applied to every bounded file.
InitParse ==
    /\ prog = "parse"
    /\ pc = "input"
    /\ exit_status = -1
    /\ LinesIdle
    /\ p_src \in {"absent", "stale", "present"}
    /\ p_buf \in FileBufs
    /\ p_fd_ret = 0 /\ p_file_ret = 0
    /\ ClockIdle /\ OutStart /\ LogIdle /\ UtilIdle /\ LoopIdle /\ GpuIdle /\ CpuIdle

\* The descriptor a program holds on the file: -1 when open failed.
FdOf(src) == CASE src = "absent" -> "none" [] src = "stale" -> "stale" [] src = "present" -> "open"

ApplyReadIntFd ==
    /\ prog = "parse" /\ pc = "input"
    /\ p_fd_ret' = read_int_fd(FdOf(p_src), p_buf)
    /\ pc' = "fd_done"
    /\ UNCHANGED <<prog, exit_status, c_prev, c_curr, c_log, c_util, p_src, p_buf, p_file_ret,
                   clockVars, outVars, logVars, utilVars, loopVars, gpuVars, cpuVars>>

ApplyReadIntFile ==
    /\ prog = "parse" /\ pc = "fd_done"
    /\ p_file_ret' = read_int_file(p_src, p_buf)
    /\ pc' = "done"
    /\ UNCHANGED <<prog, exit_status, c_prev, c_curr, c_log, c_util, p_src, p_buf, p_fd_ret,
                   clockVars, outVars, logVars, utilVars, loopVars, gpuVars, cpuVars>>

NextParse == ApplyReadIntFd \/ ApplyReadIntFile

SpecParse == InitParse /\ [][NextParse]_vars

\* ----------------------------------------------------------------- log.c
\* A heap block: a snapshot array ("stats", n its address), the array of
\* sensor paths ("paths") and its strings ("path", n the index), the array
\* of sensor values ("values") and its buffers ("value", n the index).
Block(kind, n) == [kind |-> kind, n |-> n]

StatsBlocks(h) == { b \in h : b.kind = "stats" }

\* malloc of a snapshot array (line 87): the lowest address not in use.
Malloc(h) ==
    CHOOSE a \in 1..(Cardinality(h) + 1) :
        /\ Block("stats", a) \notin h
        /\ \A b \in 1..(a - 1) : Block("stats", b) \in h

\* A free that releases nothing.
Free_Leak(h, b) == h

\* free(b).
Free(h, b) == h \ {b}

\* if (p) free(p) for a snapshot pointer; m is the heap with the record of
\* frees of blocks that were not allocated.
FreeIfSet(m, addr) ==
    IF addr = NullPtr THEN m
    ELSE [ heap |-> Free(m.heap, Block("stats", addr)),
           bad |-> m.bad \/ Block("stats", addr) \notin m.heap ]

\* free of each block of a set, all distinct.
FreeAll(m, blocks) ==
    [ heap |-> m.heap \ blocks, bad |-> m.bad \/ ~(blocks \subseteq m.heap) ]

\* Number of paths in the file given with --sensors; 0 also stands for no
\* option, a file that cannot be opened and an empty file.  The runs with a
\* sensor list are the one-second runs that print their row and log it to a
\* CSV file.
SensorListLengths == {0, 2}

MAX_CUSTOM_SENSORS == 50

\* load_custom_sensor_paths (lines 137-184) for a list of `listed` paths.
load_custom_sensor_paths(listed) ==
    LET count == IF listed > MAX_CUSTOM_SENSORS THEN MAX_CUSTOM_SENSORS ELSE listed
    IN  IF count = 0
        THEN [ heap |-> {}, paths |-> <<>>, num |-> 0 ]
        ELSE [ heap |-> {Block("paths", 0)} \cup { Block("path", i) : i \in 1..count },
               paths |-> [ i \in 1..count |-> Block("path", i) ],
               num |-> count ]

\* free_custom_sensor_paths (lines 202-213).
free_custom_sensor_paths(m, paths, num) ==
    IF paths # <<>>
    THEN LET rel == FreeAll(m, { paths[i] : i \in 1..num } \cup {Block("paths", 0)})
         IN  [ heap |-> rel.heap, bad |-> rel.bad, paths |-> <<>>, num |-> 0 ]
    ELSE [ heap |-> m.heap, bad |-> m.bad, paths |-> paths, num |-> num ]

\* Lines 324-332: custom_sensor_values and one buffer per sensor.
SensorValues(num) == [ i \in 1..num |-> Block("value", i) ]
SensorValueBlocks(num) ==
    IF num > 0 THEN {Block("values", 0)} \cup { Block("value", i) : i \in 1..num } ELSE {}

\* Lines 450-455: the value buffers of the first num sensors, then the array.
FreeSensorValues(m, values, num) ==
    IF values # <<>>
    THEN FreeAll(m, { values[i] : i \in 1..num } \cup {Block("values", 0)})
    ELSE m

\* prev_core_stats[i] as the C code reads it (i counted from 0): inside the
\* allocation the stored sample, past its end whatever lies there.
PrevAt(i, garbage) ==
    IF i + 1 <= Len(prev_core_stats) THEN prev_core_stats[i + 1] ELSE garbage

\* Guard of the console loop (line 382) for core i.
ConsoleGuard(i, garbage) ==
    /\ i < prev_num_cpu_cores
    /\ PrevAt(i, garbage).successfully_parsed
    /\ curr_core_stats[i + 1].successfully_parsed

\* Guard of the CSV loop (line 404) for column i; num is the core count of
\* this tick.
CsvGuard(i, num, garbage) ==
    /\ i < num
    /\ PrevAt(i, garbage).successfully_parsed
    /\ curr_core_stats[i + 1].successfully_parsed

\* Column i of the CSV row (lines 403-408).
CsvColumn(i, num, garbage) ==
    IF CsvGuard(i, num, garbage)
    THEN calculate_core_utilization(PrevAt(i, garbage), curr_core_stats[i + 1])
    ELSE NA

\* The CPU columns of one CSV row (lines 403-408) for the arrays prev_arr
\* and curr_arr of prev_num and num elements.
CsvRow(prev_arr, prev_num, curr_arr, num) ==
    [ k \in 1..prev_num |->
        IF k - 1 < num /\ prev_arr[k].successfully_parsed /\ curr_arr[k].successfully_parsed
        THEN calculate_core_utilization(prev_arr[k], curr_arr[k])
        ELSE NA ]

\* Success flags of the sample pairs that pass line 121 in the calls made by
\* the console loop and the CSV loop of one tick.
FedByTick(num, garbage) ==
    { <<PrevAt(i, garbage).successfully_parsed, curr_core_stats[i + 1].successfully_parsed>> :
        i \in { j \in 0..(num - 1) :
                   /\ \/ ~quiet_mode /\ ConsoleGuard(j, garbage)
                      \/ csv_file = "open" /\ j < prev_num_cpu_cores /\ CsvGuard(j, num, garbage)
                   /\ FlagTest(PrevAt(j, garbage), curr_core_stats[j + 1]) } }

InitLog ==
    /\ prog = "log"
    /\ pc = "startup"
    /\ exit_status = -1
    /\ CalcIdle /\ ClockStart /\ OutStart /\ UtilIdle /\ LoopIdle /\ GpuIdle /\ CpuIdle
    /\ keep_running = TRUE
    /\ prev_core_stats = <<>> /\ curr_core_stats = <<>>
    /\ num_cpu_cores = 0 /\ prev_num_cpu_cores = 0 /\ current_num_cpu_cores = 0
    /\ csv_seconds_counter = 0
    /\ quiet_mode \in BOOLEAN
    /\ csv_file \in {"null", "requested"}
    /\ run_duration_seconds \in {-1} \cup 1..MaxSamples
    /\ fed_flags = {} /\ sig_pc = "none" /\ rows_at_sig = 0
    /\ bad_free = FALSE /\ prev_addr = NullPtr /\ curr_addr = NullPtr
    /\ custom_sensor_values = <<>>
    /\ \E listed \in SensorListLengths :
         /\ listed > 0 =>
              ~quiet_mode /\ csv_file = "requested" /\ run_duration_seconds = 1
         /\ heap = load_custom_sensor_paths(listed).heap
         /\ custom_sensor_paths = load_custom_sensor_paths(listed).paths
         /\ num_custom_sensors = load_custom_sensor_paths(listed).num

\* A handler that records the signal but leaves keep_running set.
sigint_handler_NoClear ==
    /\ prog = "log" /\ pc # "done" /\ sig_pc = "none"
    /\ sig_pc' = pc
    /\ rows_at_sig' = rows
    /\ UNCHANGED <<prog, pc, exit_status, calcVars, clockVars, outVars, keep_running,
                   prev_core_stats, curr_core_stats, num_cpu_cores, prev_num_cpu_cores,
                   current_num_cpu_cores, csv_seconds_counter, quiet_mode, csv_file,
                   run_duration_seconds, fed_flags, memVars, sensorVars,
                   utilVars, loopVars, gpuVars, cpuVars>>

\* sigint_handler, run at any point after signal() installed it.
sigint_handler ==
    /\ prog = "log" /\ pc # "done" /\ sig_pc = "none"
    /\ keep_running' = FALSE
    /\ sig_pc' = pc
    /\ rows_at_sig' = rows
    /\ UNCHANGED <<prog, pc, exit_status, calcVars, clockVars, outVars,
                   prev_core_stats, curr_core_stats, num_cpu_cores, prev_num_cpu_cores,
                   current_num_cpu_cores, csv_seconds_counter, quiet_mode, csv_file,
                   run_duration_seconds, fed_flags, memVars, sensorVars,
                   utilVars, loopVars, gpuVars, cpuVars>>

\* Lines 297-332, after the sensor list was loaded (lines 281-286): the
\* initial capture, then the CSV header and the sensor value buffers.  fopen of the
\* CSV file may fail, which only disables CSV logging.
LogStartup ==
    /\ prog = "log" /\ pc = "startup"
    /\ \E file \in StatReads, csv_ok \in BOOLEAN :
         LET got == get_cpu_core_times(file)
             loaded == [ heap |-> heap, paths |-> custom_sensor_paths,
                         num |-> num_custom_sensors ]
         IN  IF got.ret <= 0 \/ got.arr = <<>>
             THEN LET rel == free_custom_sensor_paths([heap |-> loaded.heap, bad |-> bad_free],
                                                      loaded.paths, loaded.num)
                  IN  /\ pc' = "done" /\ exit_status' = 1
                      /\ heap' = rel.heap /\ bad_free' = rel.bad
                      /\ custom_sensor_paths' = rel.paths
                      /\ num_custom_sensors' = rel.num
                      /\ UNCHANGED <<prev_core_stats, num_cpu_cores, prev_num_cpu_cores,
                                     csv_file, header, prev_addr, custom_sensor_values>>
             ELSE /\ pc' = "init_sleep" /\ exit_status' = exit_status
                  /\ prev_addr' = Malloc(loaded.heap)
                  /\ heap' = loaded.heap \cup {Block("stats", Malloc(loaded.heap))}
                                \cup SensorValueBlocks(loaded.num)
                  /\ bad_free' = bad_free
                  /\ custom_sensor_paths' = loaded.paths
                  /\ num_custom_sensors' = loaded.num
                  /\ custom_sensor_values' = SensorValues(loaded.num)
                  /\ prev_core_stats' = got.arr
                  /\ num_cpu_cores' = got.ret
                  /\ prev_num_cpu_cores' = got.ret
                  /\ IF csv_file = "requested" /\ csv_ok
                     THEN csv_file' = "open" /\ header' = got.ret
                     ELSE csv_file' = "null" /\ header' = header
    /\ UNCHANGED <<prog, calcVars, clockVars, rows, last_row, keep_running,
                   curr_core_stats, current_num_cpu_cores, csv_seconds_counter,
                   quiet_mode, run_duration_seconds, fed_flags, sig_pc, rows_at_sig, curr_addr,
                   utilVars, loopVars, gpuVars, cpuVars>>

\* Line 335: sleep(1) before the loop.
LogInitSleep ==
    /\ prog = "log" /\ pc = "init_sleep"
    /\ pc' = "top"
    /\ now' = now + UnitsPerSecond
    /\ UNCHANGED <<prog, exit_status, calcVars, t0, work, tick, tick_start, outVars, logVars, utilVars, loopVars, gpuVars, cpuVars>>

\* Line 337: while (keep_running).
LogTop ==
    /\ prog = "log" /\ pc = "top"
    /\ IF keep_running
       THEN /\ tick < MaxSamples + 1
            /\ pc' = "capture" /\ tick' = tick + 1 /\ tick_start' = now
            /\ t0' = IF tick = 0 THEN now ELSE t0
       ELSE /\ pc' = "cleanup" /\ UNCHANGED <<tick, tick_start, t0>>
    /\ UNCHANGED <<prog, exit_status, calcVars, now, work, outVars, logVars, utilVars, loopVars, gpuVars, cpuVars>>

\* Lines 338-353: the reads of one tick.  They take the tick's work time.
LogCapture ==
    /\ prog = "log" /\ pc = "capture"
    /\ \E file \in StatReads :
         LET got == get_cpu_core_times(file)
         IN  /\ curr_core_stats' = got.arr
             /\ current_num_cpu_cores' = got.ret
             /\ curr_addr' = IF got.arr = <<>> THEN NullPtr ELSE Malloc(heap)
             /\ heap' = IF got.arr = <<>> THEN heap
                        ELSE heap \cup {Block("stats", Malloc(heap))}
    /\ now' = now + work
    /\ pc' = "check"
    /\ UNCHANGED <<prog, exit_status, calcVars, t0, work, tick, tick_start, outVars,
                   keep_running, prev_core_stats, num_cpu_cores, prev_num_cpu_cores,
                   csv_seconds_counter, quiet_mode, csv_file, run_duration_seconds,
                   fed_flags, sig_pc, rows_at_sig, prev_addr, bad_free, sensorVars,
                   utilVars, loopVars, gpuVars, cpuVars>>

\* A loop without the test of line 355.
LogCheck_NoBreak ==
    /\ prog = "log" /\ pc = "check"
    /\ pc' = "process"
    /\ UNCHANGED <<prog, exit_status, calcVars, clockVars, outVars, logVars, utilVars, loopVars, gpuVars, cpuVars>>

\* Line 355: if (!keep_running) break.
LogCheck ==
    /\ prog = "log" /\ pc = "check"
    /\ pc' = IF keep_running THEN "process" ELSE "cleanup"
    /\ UNCHANGED <<prog, exit_status, calcVars, clockVars, outVars, logVars, utilVars, loopVars, gpuVars, cpuVars>>

\* Lines 357-361: the capture failed; the tick is skipped.
LogSkip ==
    /\ prog = "log" /\ pc = "process"
    /\ current_num_cpu_cores <= 0 \/ curr_core_stats = <<>>
    /\ curr_core_stats' = <<>>
    /\ LET rel == FreeIfSet([heap |-> heap, bad |-> bad_free], curr_addr)
       IN  heap' = rel.heap /\ bad_free' = rel.bad
    /\ curr_addr' = NullPtr
    /\ pc' = "wait_check"
    /\ UNCHANGED <<prog, exit_status, calcVars, clockVars, outVars,
                   keep_running, prev_core_stats, num_cpu_cores, prev_num_cpu_cores,
                   current_num_cpu_cores, csv_seconds_counter, quiet_mode, csv_file,
                   run_duration_seconds, fed_flags, sig_pc, rows_at_sig, prev_addr, sensorVars,
                   utilVars, loopVars, gpuVars, cpuVars>>

\* A hand-over that keeps the old snapshot.
HandOver_Keep(prev_arr, curr_arr) == prev_arr

\* Line 424: prev_core_stats = curr_core_stats.
HandOver(prev_arr, curr_arr) == curr_arr

\* Lines 362-437: console output, the CSV row, the snapshot hand-over and
\* the duration test.
LogWrite ==
    /\ prog = "log" /\ pc = "process"
    /\ ~(current_num_cpu_cores <= 0 \/ curr_core_stats = <<>>)
    /\ \E garbage \in GarbageSamples :
         /\ fed_flags' = FedByTick(current_num_cpu_cores, garbage)
         /\ IF csv_file = "open"
            THEN /\ rows' = rows + 1
                 /\ last_row' =
                      [ sample |-> csv_seconds_counter,
                        cols |-> [ k \in 1..prev_num_cpu_cores |->
                                     CsvColumn(k - 1, current_num_cpu_cores, garbage) ] ]
            ELSE UNCHANGED <<rows, last_row>>
    /\ num_cpu_cores' = current_num_cpu_cores
    /\ prev_core_stats' = HandOver(prev_core_stats, curr_core_stats)
    /\ curr_core_stats' = <<>>
    /\ LET rel == FreeIfSet([heap |-> heap, bad |-> bad_free], prev_addr)
       IN  heap' = rel.heap /\ bad_free' = rel.bad
    /\ prev_addr' = curr_addr
    /\ curr_addr' = NullPtr
    /\ prev_num_cpu_cores' = IF ~quiet_mode THEN current_num_cpu_cores ELSE prev_num_cpu_cores
    /\ csv_seconds_counter' = csv_seconds_counter + 1
    /\ keep_running' =
         IF run_duration_seconds > 0 /\ csv_seconds_counter + 1 >= run_duration_seconds
         THEN FALSE ELSE keep_running
    /\ pc' = "wait_check"
    /\ UNCHANGED <<prog, exit_status, calcVars, clockVars, header,
                   current_num_cpu_cores, quiet_mode, csv_file, run_duration_seconds,
                   sig_pc, rows_at_sig, sensorVars,
                   utilVars, loopVars, gpuVars, cpuVars>>

\* if (keep_running) of lines 360 and 439.
LogWaitCheck ==
    /\ prog = "log" /\ pc = "wait_check"
    /\ pc' = IF keep_running THEN "sleep" ELSE "top"
    /\ UNCHANGED <<prog, exit_status, calcVars, clockVars, outVars, logVars, utilVars, loopVars, gpuVars, cpuVars>>

\* sleep(1) of lines 360 and 439: a relative wait of one second, counted
\* from the moment it is called.  A signal cuts it short.
LogSleep ==
    /\ prog = "log" /\ pc = "sleep"
    /\ IF keep_running
       THEN now' = now + UnitsPerSecond
       ELSE now' \in {now, now + UnitsPerSecond}
    /\ pc' = "top"
    /\ UNCHANGED <<prog, exit_status, calcVars, t0, work, tick, tick_start, outVars, logVars, utilVars, loopVars, gpuVars, cpuVars>>

\* Lines 442-459.
LogCleanup ==
    /\ prog = "log" /\ pc = "cleanup"
    /\ prev_core_stats' = <<>> /\ curr_core_stats' = <<>>
    /\ LET stats == FreeIfSet(FreeIfSet([heap |-> heap, bad |-> bad_free], prev_addr),
                              curr_addr)
           rel == free_custom_sensor_paths(stats, custom_sensor_paths, num_custom_sensors)
           fin == FreeSensorValues([heap |-> rel.heap, bad |-> rel.bad],
                                   custom_sensor_values, rel.num)
       IN  /\ heap' = fin.heap /\ bad_free' = fin.bad
           /\ custom_sensor_paths' = rel.paths
           /\ num_custom_sensors' = rel.num
    /\ csv_file' = IF csv_file = "open" THEN "closed" ELSE csv_file
    /\ pc' = "done" /\ exit_status' = 0
    /\ UNCHANGED <<prog, calcVars, clockVars, outVars, keep_running, num_cpu_cores,
                   prev_num_cpu_cores, current_num_cpu_cores, csv_seconds_counter,
                   quiet_mode, run_duration_seconds, fed_flags, sig_pc, rows_at_sig, prev_addr, curr_addr, custom_sensor_values,
                   utilVars, loopVars, gpuVars, cpuVars>>

NextLog ==
    \/ sigint_handler
    \/ LogStartup
    \/ LogInitSleep
    \/ LogTop
    \/ LogCapture
    \/ LogCheck
    \/ LogSkip
    \/ LogWrite
    \/ LogWaitCheck
    \/ LogSleep
    \/ LogCleanup

SpecLog == InitLog /\ [][NextLog]_vars

\* The steps of main, as opposed to the signal handler.
LogMain ==
    \/ LogStartup
    \/ LogInitSleep
    \/ LogTop
    \/ LogCapture
    \/ LogCheck
    \/ LogSkip
    \/ LogWrite
    \/ LogWaitCheck
    \/ LogSleep
    \/ LogCleanup

\* --------------------------------------------------------- util_logger.c
\* A fold without the test id < MAX_CORES: the entry of any declared id is
\* stored.
RECURSIVE SnapFold_NoRange(_, _)
SnapFold_NoRange(snap, lines) ==
    IF lines = <<>> THEN snap
    ELSE LET l == Head(lines)
             n == 1 + (IF Len(l.f) > 10 THEN 10 ELSE Len(l.f))
         IN  SnapFold_NoRange(IF IsCoreLine(l) /\ n >= 5
                              THEN (l.id :> SnapEntry(l.f)) @@ snap
                              ELSE snap,
                              Tail(lines))

\* read_cpu_snapshot: [ret, snap].  The lines are taken in file order; a
\* per-core line whose id is below MAX_CORES and that has at least four
\* numbers sets the entry of its id.
RECURSIVE SnapFold(_, _)
SnapFold(snap, lines) ==
    IF lines = <<>> THEN snap
    ELSE LET l == Head(lines)
             n == 1 + (IF Len(l.f) > 10 THEN 10 ELSE Len(l.f))
         IN  SnapFold(IF IsCoreLine(l) /\ n >= 5 /\ l.id < MAX_CORES
                      THEN [snap EXCEPT ![l.id] = SnapEntry(l.f)]
                      ELSE snap,
                      Tail(lines))

read_cpu_snapshot(file) ==
    IF file = NoFile THEN [ret |-> -1, snap |-> ZeroSnap]
    ELSE [ret |-> 0, snap |-> SnapFold(ZeroSnap, file)]

\* util[c] for c = 0..MAX_CORES-1 (lines 149-162) from two snapshots.
UtilRow(snap1, snap2) == [ k \in 1..MAX_CORES |-> core_util(snap1[k - 1], snap2[k - 1]) ]

\* read_gpu_busy leaves -1 in gpu_busy on failure, else the value read.
GpuBusyReads == {-1, 37}

InitUtil ==
    /\ prog = "util"
    /\ pc = "startup"
    /\ exit_status = -1
    /\ CalcIdle /\ ClockStart /\ OutStart /\ LogIdle /\ LoopIdle /\ GpuIdle /\ CpuIdle
    /\ s1 = ZeroSnap /\ s2 = ZeroSnap
    /\ samples \in {-1} \cup 0..MaxSamples
    /\ sample_idx = 0
    /\ interval_sec \in 1..2

\* Lines 116-135: open the output, write the header, take the first snapshot.
UtilStartup ==
    /\ prog = "util" /\ pc = "startup"
    /\ \E out_ok \in BOOLEAN, file \in StatReads :
         IF ~out_ok
         THEN /\ pc' = "done" /\ exit_status' = 1
              /\ UNCHANGED <<header, s1>>
         ELSE /\ header' = 1 + MAX_CORES
              /\ LET got == read_cpu_snapshot(file)
                 IN  /\ s1' = got.snap
                     /\ IF got.ret # 0
                        THEN pc' = "done" /\ exit_status' = 1
                        ELSE pc' = "loop_test" /\ exit_status' = exit_status
    /\ UNCHANGED <<prog, calcVars, clockVars, rows, last_row, logVars,
                   s2, samples, sample_idx, interval_sec, loopVars, gpuVars, cpuVars>>

\* Line 136: while (samples < 0 || sample_idx < samples).
UtilLoopTest ==
    /\ prog = "util" /\ pc = "loop_test"
    /\ IF samples < 0 \/ sample_idx < samples
       THEN tick < MaxSamples + 1 /\ pc' = "sleep"
       ELSE pc' = "finish"
    /\ UNCHANGED <<prog, exit_status, calcVars, clockVars, outVars, logVars, utilVars, loopVars, gpuVars, cpuVars>>

\* msleep_exact(interval_sec * 1000): nanosleep, a relative wait.
msleep_exact ==
    /\ prog = "util" /\ pc = "sleep"
    /\ now' = now + interval_sec * UnitsPerSecond
    /\ pc' = "tick"
    /\ UNCHANGED <<prog, exit_status, calcVars, t0, work, tick, tick_start,
                   outVars, logVars, utilVars, loopVars, gpuVars, cpuVars>>

\* Lines 139-175: one tick's work.
UtilTick ==
    /\ prog = "util" /\ pc = "tick"
    /\ tick' = tick + 1 /\ tick_start' = now
    /\ t0' = IF tick = 0 THEN now ELSE t0
    /\ now' = now + work
    /\ \E file \in StatReads, gpu_busy \in GpuBusyReads :
         LET got == read_cpu_snapshot(file)
         IN  /\ s2' = got.snap
             /\ IF got.ret # 0
                THEN /\ pc' = "finish"
                     /\ UNCHANGED <<rows, last_row, sample_idx, s1>>
                ELSE /\ sample_idx' = sample_idx + 1
                     /\ rows' = rows + 1
                     /\ last_row' =
                          [ sample |-> sample_idx + 1,
                            cols |-> <<gpu_busy>> \o UtilRow(s1, got.snap) ]
                     /\ s1' = got.snap
                     /\ pc' = "loop_test"
    /\ UNCHANGED <<prog, exit_status, calcVars, work, header, logVars,
                   samples, interval_sec, loopVars, gpuVars, cpuVars>>

\* Lines 178-179.
UtilFinish ==
    /\ prog = "util" /\ pc = "finish"
    /\ pc' = "done" /\ exit_status' = 0
    /\ UNCHANGED <<prog, calcVars, clockVars, outVars, logVars, utilVars, loopVars, gpuVars, cpuVars>>

NextUtil ==
    \/ UtilStartup
    \/ UtilLoopTest
    \/ msleep_exact
    \/ UtilTick
    \/ UtilFinish

SpecUtil == InitUtil /\ [][NextUtil]_vars

\* ----------------------------------------------------------- rows harness
\* Two consecutive reads of /proc/stat, c_prev then c_curr, turned into the
\* per-core columns of one row by log.c and by util_logger.c.
InitRows ==
    /\ prog = "rows"
    /\ pc = "input"
    /\ exit_status = -1
    /\ c_prev \in RowFiles
    /\ c_curr \in RowFiles
    /\ c_log = NoResult /\ c_util = NoResult
    /\ ParseIdle
    /\ ClockIdle /\ OutStart /\ LogIdle /\ UtilIdle /\ LoopIdle /\ GpuIdle /\ CpuIdle

\* log.c: the startup read (line 297) and the read of the first tick (line
\* 339), then the CSV columns of the first row; no row when a read fails.
ApplyLogRow ==
    /\ prog = "rows" /\ pc = "input"
    /\ LET p == get_cpu_core_times(c_prev)
           c == get_cpu_core_times(c_curr)
       IN  /\ prev_core_stats' = p.arr
           /\ curr_core_stats' = c.arr
           /\ prev_num_cpu_cores' = p.ret
           /\ current_num_cpu_cores' = c.ret
           /\ c_log' = IF p.ret <= 0 \/ c.ret <= 0 THEN <<>>
                       ELSE CsvRow(p.arr, p.ret, c.arr, c.ret)
    /\ pc' = "log_done"
    /\ UNCHANGED <<prog, exit_status, c_prev, c_curr, c_util, p_src, p_buf, p_fd_ret, p_file_ret,
                   clockVars, outVars, keep_running, num_cpu_cores, csv_seconds_counter,
                   quiet_mode, csv_file, run_duration_seconds, fed_flags, sig_pc, rows_at_sig,
                   memVars, sensorVars,
                   utilVars, loopVars, gpuVars, cpuVars>>

\* util_logger.c: the startup snapshot (line 129) and the snapshot of the
\* first tick (line 139), then util[0..MAX_CORES-1].
ApplyUtilRow ==
    /\ prog = "rows" /\ pc = "log_done"
    /\ s1' = read_cpu_snapshot(c_prev).snap
    /\ s2' = read_cpu_snapshot(c_curr).snap
    /\ c_util' = UtilRow(s1', s2')
    /\ pc' = "done"
    /\ UNCHANGED <<prog, exit_status, c_prev, c_curr, c_log, p_src, p_buf, p_fd_ret, p_file_ret,
                   clockVars, outVars, logVars, samples, sample_idx, interval_sec,
                   loopVars, gpuVars, cpuVars>>

NextRows == ApplyLogRow \/ ApplyUtilRow

SpecRows == InitRows /\ [][NextRows]_vars

\* ------------------------------------ logger.c and combined_gpu_logger.c
\* The two programs differ in their counters and in the reopen of lines
\* 99-101 of logger.c, which combined_gpu_logger.c does not have.
\*
\* A sysfs node is "absent", "ok" (a read gives its value) or "bad" (it
\* opens, but a read gives no bytes or no digits).  A descriptor is "none"
\* (-1), "open", or "stale": it was opened on a node that has since been
\* removed, and every lseek/read on it fails.
CounterSeq(p) ==
    IF p = "logger" THEN <<"temp", "freq", "util">>
    ELSE <<"temp", "freq", "util", "pwrlvl", "thr">>

Counters(p) == { CounterSeq(p)[k] : k \in 1..Len(CounterSeq(p)) }

\* Longest run of node changes the environment makes during one run.
MaxNodeEvents == 2

\* open(PATH, O_RDONLY | O_CLOEXEC)
open_node(n) == IF n = "absent" THEN "none" ELSE "open"

\* What a read of a node returns: a readable node holds "42\n", an
\* unreadable one gives no bytes.
NodeContent(n) == IF n = "ok" THEN <<"4", "2", "\n">> ELSE <<>>

\* A reader that closes, reopens and reads again as long as the value is
\* negative and the descriptor is not -1, up to two times in one tick.
LoggerRead_Again(f, n) ==
    LET first == read_int_fd(f, NodeContent(n))
        second == read_int_fd(open_node(n), NodeContent(n))
    IN  IF first < 0 /\ f # "none"
        THEN IF second < 0 /\ open_node(n) # "none"
             THEN [fd |-> open_node(n), val |-> read_int_fd(open_node(n), NodeContent(n)),
                   ops |-> <<"read", "close", "open", "read", "close", "open", "read">>]
             ELSE [fd |-> open_node(n), val |-> second,
                   ops |-> <<"read", "close", "open", "read">>]
        ELSE [fd |-> f, val |-> first, ops |-> <<"read">>]

\* One counter of one tick of logger.c: the read of lines 94-96, then the
\* close / open / read of lines 99-101 when the value is negative and the
\* descriptor is not -1.  [fd, val, ops]: the descriptor and the value
\* after the tick, and the calls made on the counter, in order ("read" is
\* a call of read_int_fd).
LoggerRead(f, n) ==
    LET first == read_int_fd(f, NodeContent(n))
    IN  IF first < 0 /\ f # "none"
        THEN [fd |-> open_node(n), val |-> read_int_fd(open_node(n), NodeContent(n)),
              ops |-> <<"read", "close", "open", "read">>]
        ELSE [fd |-> f, val |-> first, ops |-> <<"read">>]

\* One counter of one tick of combined_gpu_logger.c (lines 102-106).
CombinedRead(f, n) == [fd |-> f, val |-> read_int_fd(f, NodeContent(n))]

TickRead(p, f, n) == IF p = "logger" THEN LoggerRead(f, n) ELSE CombinedRead(f, n)

InitGpu ==
    /\ prog \in {"logger", "combined"}
    /\ pc = "startup"
    /\ exit_status = -1
    /\ CalcIdle /\ ClockStart /\ OutStart /\ LogIdle /\ UtilIdle /\ CpuIdle
    /\ seconds \in 1..MaxSamples
    /\ loop_i = 0 /\ next = 0
    /\ fd = [c \in AllCounters |-> "none"]
    /\ \E missing \in SUBSET Counters(prog) :
         /\ Cardinality(missing) <= 1
         /\ node = [c \in AllCounters |->
                      IF c \in Counters(prog) /\ c \notin missing THEN "ok" ELSE "absent"]
    /\ node_events = 0

\* Lines 65-90 of logger.c, 75-98 of combined_gpu_logger.c: open the nodes,
\* open the output (on failure: return 1), write the header, read the clock.
GpuStartup ==
    /\ prog \in {"logger", "combined"} /\ pc = "startup"
    /\ fd' = [c \in AllCounters |-> IF c \in Counters(prog) THEN open_node(node[c]) ELSE "none"]
    /\ \E out_ok \in BOOLEAN :
         IF out_ok
         THEN /\ header' = Len(CounterSeq(prog))
              /\ next' = now /\ loop_i' = 1
              /\ pc' = "loop_test" /\ exit_status' = exit_status
         ELSE /\ pc' = "done" /\ exit_status' = 1
              /\ UNCHANGED <<header, next, loop_i>>
    /\ UNCHANGED <<prog, clockVars, rows, last_row, seconds, node, node_events,
                   calcVars, logVars, utilVars, cpuVars>>

\* for (long i = 1; i <= seconds; ++i)
GpuLoopTest ==
    /\ prog \in {"logger", "combined"} /\ pc = "loop_test"
    /\ pc' = IF loop_i <= seconds THEN "tick" ELSE "finish"
    /\ UNCHANGED <<prog, exit_status, clockVars, outVars, loopVars, gpuVars,
                   calcVars, logVars, utilVars, cpuVars>>

\* The body of the loop up to the wait: the reads, the row, next.tv_sec += 1.
GpuTick ==
    /\ prog \in {"logger", "combined"} /\ pc = "tick"
    /\ tick' = tick + 1 /\ tick_start' = now
    /\ t0' = IF tick = 0 THEN now ELSE t0
    /\ now' = now + work
    /\ fd' = [c \in AllCounters |->
                IF c \in Counters(prog) THEN TickRead(prog, fd[c], node[c]).fd ELSE fd[c]]
    /\ rows' = rows + 1
    /\ last_row' = [ sample |-> loop_i,
                     cols |-> [ k \in 1..Len(CounterSeq(prog)) |->
                                  TickRead(prog, fd[CounterSeq(prog)[k]],
                                           node[CounterSeq(prog)[k]]).val ] ]
    /\ next' = next + UnitsPerSecond
    /\ pc' = "wait"
    /\ UNCHANGED <<prog, exit_status, work, header, seconds, loop_i, node, node_events,
                   calcVars, logVars, utilVars, cpuVars>>

\* clock_nanosleep(CLOCK_MONOTONIC, TIMER_ABSTIME, &next, NULL), then ++i.
GpuWait ==
    /\ prog \in {"logger", "combined"} /\ pc = "wait"
    /\ now' = IF now < next THEN next ELSE now
    /\ loop_i' = loop_i + 1
    /\ pc' = "loop_test"
    /\ UNCHANGED <<prog, exit_status, t0, work, tick, tick_start, outVars, seconds, next,
                   gpuVars, calcVars, logVars, utilVars, cpuVars>>

\* Lines 112-116 / 114-120: fclose(out), close every descriptor >= 0.
GpuFinish ==
    /\ prog \in {"logger", "combined"} /\ pc = "finish"
    /\ fd' = [c \in AllCounters |-> "none"]
    /\ pc' = "done" /\ exit_status' = 0
    /\ UNCHANGED <<prog, clockVars, outVars, loopVars, node, node_events,
                   calcVars, logVars, utilVars, cpuVars>>

\* The environment: while the program waits, a node is removed, created
\* (again), starts to fail its reads, or recovers.  Removing a node, and
\* creating it anew, leaves the descriptors opened on the old one stale.
NodeEvent ==
    /\ prog \in {"logger", "combined"} /\ pc = "wait"
    /\ node_events < MaxNodeEvents
    /\ \E c \in Counters(prog), kind \in {"remove", "create", "break", "heal"} :
         /\ kind = "remove" => node[c] # "absent"
         /\ kind = "break" => node[c] = "ok"
         /\ kind = "heal" => node[c] = "bad"
         /\ node' = [node EXCEPT ![c] = CASE kind = "remove" -> "absent"
                                          [] kind = "create" -> "ok"
                                          [] kind = "break" -> "bad"
                                          [] kind = "heal" -> "ok"]
         /\ fd' = [fd EXCEPT ![c] = IF kind \in {"remove", "create"} /\ fd[c] = "open"
                                    THEN "stale" ELSE fd[c]]
    /\ node_events' = node_events + 1
    /\ UNCHANGED <<prog, pc, exit_status, clockVars, outVars, loopVars,
                   calcVars, logVars, utilVars, cpuVars>>

NextGpu ==
    \/ GpuStartup
    \/ GpuLoopTest
    \/ GpuTick
    \/ GpuWait
    \/ GpuFinish
    \/ NodeEvent

SpecGpu == InitGpu /\ [][NextGpu]_vars

\* ------------------------------------------------------------ cpu_logger.c
MAX_CPUS == 128
MAX_THERMAL_ZONES == 128

\* All orders, without repetition, of the elements of a finite set.
Perms(S) == { q \in [1..Cardinality(S) -> S] : \A a, b \in DOMAIN q : a # b => q[a] # q[b] }

\* Entries of /sys/devices/system/cpu: cpuN directories (num >= 0) with or
\* without cpufreq/scaling_cur_freq, and other entries (num = -1).
CpuEntries ==
    { [num |-> 0, cpufreq |-> TRUE], [num |-> 1, cpufreq |-> TRUE],
      [num |-> 3, cpufreq |-> TRUE], [num |-> 2, cpufreq |-> FALSE] }

\* Entries of /sys/class/thermal: thermal_zoneN directories with the content
\* of their type file, as a sequence of characters.
ThermalEntries ==
    { [zone |-> 0, type |-> <<"c", "p", "u", "-", "t">>],
      [zone |-> 1, type |-> <<"g", "p", "u">>],
      [zone |-> 2, type |-> <<"C", "p", "u", "-", "t">>] }

CpuDirListings == UNION { Perms(S) : S \in SUBSET CpuEntries }
ThermalDirListings == UNION { Perms(S) : S \in SUBSET ThermalEntries }

\* strstr(hay, needle) != NULL
strstr(hay, needle) ==
    \E k \in 0..(Len(hay) - Len(needle)) : SubSeq(hay, k + 1, k + Len(needle)) = needle

\* scan_cpus: the table cpus after the directory has been read in the order
\* listing.
RECURSIVE scan_cpus(_, _)
scan_cpus(table, listing) ==
    IF listing = <<>> \/ ~(Len(table) < MAX_CPUS) THEN table
    ELSE LET entry == Head(listing)
         IN  scan_cpus(IF entry.num >= 0 /\ entry.cpufreq
                       THEN Append(table, [cpu_num |-> entry.num])
                       ELSE table,
                       Tail(listing))

\* scan_thermal_zones: the table thermal_zones after the directory has been
\* read in the order listing.
RECURSIVE scan_thermal_zones(_, _)
scan_thermal_zones(table, listing) ==
    IF listing = <<>> \/ ~(Len(table) < MAX_THERMAL_ZONES) THEN table
    ELSE LET entry == Head(listing)
         IN  scan_thermal_zones(
                 IF strstr(entry.type, <<"c", "p", "u">>) \/ strstr(entry.type, <<"C", "P", "U">>)
                 THEN Append(table, [zone_name |-> entry.zone, type_name |-> entry.type])
                 ELSE table,
                 Tail(listing))

\* What read_int_file returns for one counter file on one tick.
IntFileReads == {-1, 42}

InitCpu ==
    /\ prog = "cpu"
    /\ pc = "startup"
    /\ exit_status = -1
    /\ CalcIdle /\ ClockStart /\ OutStart /\ LogIdle /\ UtilIdle /\ GpuIdle
    /\ seconds \in 1..MaxSamples
    /\ loop_i = 0 /\ next = 0
    /\ cpu_dir \in CpuDirListings
    /\ thermal_dir \in ThermalDirListings
    /\ cpus = <<>> /\ thermal_zones = <<>>

\* Lines 161-196: the scans, the refusal to start without a CPU, the output
\* file and its header, the clock.
CpuStartup ==
    /\ prog = "cpu" /\ pc = "startup"
    /\ cpus' = scan_cpus(<<>>, cpu_dir)
    /\ thermal_zones' = scan_thermal_zones(<<>>, thermal_dir)
    /\ \E out_ok \in BOOLEAN :
         IF Len(cpus') = 0 \/ ~out_ok
         THEN /\ pc' = "done" /\ exit_status' = 1
              /\ UNCHANGED <<header, next, loop_i>>
         ELSE /\ header' = Len(cpus') + Len(thermal_zones')
              /\ next' = now /\ loop_i' = 1
              /\ pc' = "loop_test" /\ exit_status' = exit_status
    /\ UNCHANGED <<prog, clockVars, rows, last_row, seconds, cpu_dir, thermal_dir,
                   calcVars, logVars, utilVars, gpuVars>>

\* for (long sample = 1; sample <= seconds; ++sample)
CpuLoopTest ==
    /\ prog = "cpu" /\ pc = "loop_test"
    /\ pc' = IF loop_i <= seconds THEN "tick" ELSE "finish"
    /\ UNCHANGED <<prog, exit_status, clockVars, outVars, loopVars, cpuVars,
                   calcVars, logVars, utilVars, gpuVars>>

\* Lines 199-215: the row of one sample, next.tv_sec += 1.
CpuTick ==
    /\ prog = "cpu" /\ pc = "tick"
    /\ tick' = tick + 1 /\ tick_start' = now
    /\ t0' = IF tick = 0 THEN now ELSE t0
    /\ now' = now + work
    /\ \E reads \in [1..(Len(cpus) + Len(thermal_zones)) -> IntFileReads] :
         last_row' = [sample |-> loop_i, cols |-> reads]
    /\ rows' = rows + 1
    /\ next' = next + UnitsPerSecond
    /\ pc' = "wait"
    /\ UNCHANGED <<prog, exit_status, work, header, seconds, loop_i, cpuVars,
                   calcVars, logVars, utilVars, gpuVars>>

\* clock_nanosleep(CLOCK_MONOTONIC, TIMER_ABSTIME, &next, NULL), then ++sample.
CpuWait ==
    /\ prog = "cpu" /\ pc = "wait"
    /\ now' = IF now < next THEN next ELSE now
    /\ loop_i' = loop_i + 1
    /\ pc' = "loop_test"
    /\ UNCHANGED <<prog, exit_status, t0, work, tick, tick_start, outVars, seconds, next,
                   cpuVars, calcVars, logVars, utilVars, gpuVars>>

\* Lines 219-221.
CpuFinish ==
    /\ prog = "cpu" /\ pc = "finish"
    /\ pc' = "done" /\ exit_status' = 0
    /\ UNCHANGED <<prog, clockVars, outVars, loopVars, cpuVars,
                   calcVars, logVars, utilVars, gpuVars>>

NextCpu ==
    \/ CpuStartup
    \/ CpuLoopTest
    \/ CpuTick
    \/ CpuWait
    \/ CpuFinish

SpecCpu == InitCpu /\ [][NextCpu]_vars

\* ------------------------------------------------- claims on the calculators
\* Vocabulary of the claims, on the lines drawn by the calc harness.
BothParsed == ParseCpuTime(c_prev).successfully_parsed /\ ParseCpuTime(c_curr).successfully_parsed
BothPresent == SnapEntry(c_prev).present /\ SnapEntry(c_curr).present
IdleLikeOf(f) == Field(f, 4) + Field(f, 5)
TotalOf(f) == Field(f, 1) + Field(f, 2) + Field(f, 3) + Field(f, 4)
              + Field(f, 5) + Field(f, 6) + Field(f, 7) + Field(f, 8)
IsZero(u) == u.den > 0 /\ u.num = 0
IsPercent(u) == u.den > 0 /\ 0 <= u.num /\ u.num <= 100 * u.den
LogCalcDone == prog = "calc" /\ pc \in {"log_done", "done"}
UtilCalcDone == prog = "calc" /\ pc = "done"

SpecCalcLog == (InitCalc \/ InitLog) /\ [][NextCalc \/ NextLog]_vars

\* C1: calculate_core_utilization returns the unavailable marker -1.0 (not
\* 0.0, not a percentage) whenever one of the two samples has
\* successfully_parsed = false, whatever the tick fields hold; and in the
\* sampling loop of log.c every pair of samples that reaches the delta
\* formula has both flags set.
C1_FlagGate ==
    /\ (LogCalcDone /\ ~BothParsed) => c_log = Unavailable
    /\ prog = "log" => fed_flags \subseteq {<<TRUE, TRUE>>}

\* A truncated earlier line with non-zero ticks, a full later line, and the
\* calculator has answered.
C1_Witness ==
    /\ LogCalcDone
    /\ Len(c_prev) = 4 /\ SumSeq(c_prev) > 0
    /\ Len(c_curr) = 8 /\ SumSeq(c_curr) > SumSeq(c_prev)
    /\ c_log = Unavailable

\* C2: for every pair of samples, backward counters and partial changes
\* included, each calculator yields the unavailable marker or a percentage
\* in [0, 100].
C2_Range ==
    /\ LogCalcDone => (c_log = Unavailable \/ IsPercent(c_log))
    /\ UtilCalcDone => (c_util = Unavailable \/ IsPercent(c_util))

\* Both samples valid, the idle-like delta larger than the total delta (the
\* non-idle counters went backward): log.c answers with the clamped 100.
C2_Witness ==
    /\ UtilCalcDone /\ BothParsed
    /\ TotalOf(c_curr) > TotalOf(c_prev)
    /\ IdleLikeOf(c_curr) - IdleLikeOf(c_prev) > TotalOf(c_curr) - TotalOf(c_prev)
    /\ c_log = Hundred

\* C3: both samples valid and the total delta exactly zero: the reported
\* utilization is 0.0, in log.c and in util_logger.c.
C3_ZeroDelta ==
    /\ (LogCalcDone /\ BothParsed /\ TotalOf(c_curr) = TotalOf(c_prev)) => IsZero(c_log)
    /\ (UtilCalcDone /\ BothPresent /\ SnapEntry(c_curr).total = SnapEntry(c_prev).total)
         => IsZero(c_util)

\* C4: both samples valid and the total or the idle-like value went
\* backward: the reported utilization is exactly 0.0, in log.c and in
\* util_logger.c.
C4_Backward ==
    /\ (LogCalcDone /\ BothParsed
        /\ (TotalOf(c_curr) < TotalOf(c_prev) \/ IdleLikeOf(c_curr) < IdleLikeOf(c_prev)))
         => IsZero(c_log)
    /\ (UtilCalcDone /\ BothPresent
        /\ (SnapEntry(c_curr).total < SnapEntry(c_prev).total
            \/ SnapEntry(c_curr).idle_like < SnapEntry(c_prev).idle_like))
         => IsZero(c_util)

\* C5: two valid samples with current total > previous total and current
\* idle >= previous idle: calculate_core_utilization returns
\* 100 * (total_delta - idle_delta) / total_delta, and 50 on the example
\* {user 100, idle 900} -> {user 150, idle 950}.
C5_Formula ==
    /\ (LogCalcDone /\ BothParsed
        /\ TotalOf(c_curr) > TotalOf(c_prev) /\ IdleLikeOf(c_curr) >= IdleLikeOf(c_prev))
         => /\ c_log.den > 0
            /\ c_log.num * (TotalOf(c_curr) - TotalOf(c_prev))
                 = 100 * ((TotalOf(c_curr) - TotalOf(c_prev))
                          - (IdleLikeOf(c_curr) - IdleLikeOf(c_prev))) * c_log.den
    /\ (LogCalcDone /\ c_prev = ExamplePrev /\ c_curr = ExampleCurr)
         => c_log.num = 50 * c_log.den

\* ---------------------------------------------- claims on the sampling loops
Interval == (IF prog = "util" THEN interval_sec ELSE 1) * UnitsPerSecond
GpuProg == prog \in {"logger", "combined"}

\* C6: a bounded run of N >= 1 samples without cancellation writes exactly N
\* data rows and stops; the sample index of consecutive rows grows by one,
\* from 1 in logger.c, combined_gpu_logger.c, cpu_logger.c and
\* util_logger.c, from 0 in log.c.
C6_ExactRows ==
    /\ (GpuProg \/ prog = "cpu") =>
         /\ rows > 0 => last_row.sample = rows
         /\ (pc = "done" /\ exit_status = 0) => rows = seconds
    /\ (prog = "util" /\ samples >= 1) =>
         /\ rows > 0 => last_row.sample = rows
         /\ (pc = "done" /\ exit_status = 0) => rows = samples
    /\ (prog = "log" /\ run_duration_seconds >= 1 /\ sig_pc = "none"
        /\ csv_file \in {"open", "closed"}) =>
         /\ rows > 0 => last_row.sample = rows - 1
         /\ (pc = "done" /\ exit_status = 0) => rows = run_duration_seconds

\* C7: with a fixed work time W, 0 < W < interval, and no cancellation, the
\* work of tick k+1 starts exactly k intervals after the start of the first
\* tick, in every sampling loop.
C7_NoDrift ==
    (prog \in {"log", "util", "logger", "combined", "cpu"} /\ tick >= 1 /\ sig_pc = "none")
      => tick_start = t0 + (tick - 1) * Interval

\* C8: in log.c, when SIGINT arrives during the inter-tick wait, no data row
\* is written after it and the program goes through its cleanup to the end:
\* from the wait it can only pass the loop test to the cleanup, and it is
\* never stuck on the way.
C8_SigintInWait ==
    (prog = "log" /\ sig_pc = "sleep") =>
      /\ rows = rows_at_sig
      /\ pc \in {"sleep", "top", "cleanup", "done"}
      /\ pc # "done" => ENABLED (LogSleep \/ LogTop \/ LogCleanup)
      /\ pc = "done" => (exit_status = 0 /\ csv_file # "open")

\* SIGINT arrived in the wait after at least one row, and the run has ended.
C8_Witness ==
    prog = "log" /\ sig_pc = "sleep" /\ pc = "done" /\ rows >= 1 /\ rows = rows_at_sig

\* C9: a failed read marks the counter -1 for that tick only: on every tick
\* on which the counter file is readable, the row carries its value; also
\* after a failed reopen (logger.c) and after a failed open at startup.
C9_TickOnly ==
    [][ (GpuProg /\ pc = "tick") =>
          \A k \in 1..Len(CounterSeq(prog)) :
              node[CounterSeq(prog)[k]] = "ok" => last_row'.cols[k] # -1 ]_vars

\* C10: a read failure on a tick never ends the run: a loop that was entered
\* ends only when the requested sample count is reached or cancellation was
\* requested.
C10_RunGoesOn ==
    /\ (prog = "util" /\ pc = "finish") => (samples >= 0 /\ sample_idx >= samples)
    /\ (prog = "log" /\ pc = "cleanup") =>
         \/ sig_pc # "none"
         \/ run_duration_seconds > 0 /\ csv_seconds_counter >= run_duration_seconds
    /\ ((GpuProg \/ prog = "cpu") /\ pc = "finish") => loop_i > seconds

\* ------------------------------------------------- claims on the GPU loggers
CountOps(ops, x) == Cardinality({ k \in 1..Len(ops) : ops[k] = x })

\* C11: in logger.c, in one tick each of the three counters is closed and
\* reopened at most once and read at most twice; when the read after the
\* reopen fails too, the counter of the tick is -1.
C11_OneReopen ==
    (prog = "logger" /\ pc = "tick") =>
        \A c \in Counters("logger") :
            LET r == LoggerRead(fd[c], node[c])
            IN  /\ CountOps(r.ops, "close") <= 1
                /\ CountOps(r.ops, "open") <= 1
                /\ CountOps(r.ops, "read") <= 2
                /\ (CountOps(r.ops, "read") = 2 /\ read_int_fd(r.fd, NodeContent(node[c])) < 0)
                      => r.val = -1

\* The temp node opens but its read fails, before and after the reopen: the
\* row of the tick carries -1 and the descriptor is the reopened one.
C11_Witness ==
    /\ prog = "logger" /\ pc = "wait" /\ rows = 2
    /\ node["temp"] = "bad" /\ fd["temp"] = "open" /\ last_row.cols[1] = -1

\* ---------------------------------------------------------- claims on log.c
\* C12: in log.c every data row of the CSV has as many CPU-core columns as
\* the header written before the first tick, whatever the core counts of
\* the ticks are, in quiet and in non-quiet mode.
C12_StableColumns ==
    (prog = "log" /\ rows > 0) => Len(last_row.cols) = header

\* ------------------------------------------------------- claims on startup
\* C13: without a per-core CPU entry at startup the program refuses to
\* start: it ends with a failure status and has written nothing, neither the
\* header nor a row.  For cpu_logger.c (no core with cpufreq), log.c and
\* util_logger.c (no cpuN line in /proc/stat).
C13_RefuseToStart ==
    /\ (prog = "cpu" /\ pc # "startup" /\ Len(cpus) = 0) =>
          (pc = "done" /\ exit_status = 1 /\ header = -1 /\ rows = 0)
    /\ (prog = "log" /\ pc # "startup" /\ num_cpu_cores = 0) =>
          (pc = "done" /\ exit_status = 1 /\ header = -1 /\ rows = 0)
    /\ (prog = "util" /\ pc # "startup" /\ tick = 0 /\ header # -1) =>
          \E c \in 0..(MAX_CORES - 1) : s1[c].present

\* ------------------------------------------- claims on the counter readers
\* The first signed decimal integer of a content: after w white-space
\* characters an optional "-", then n >= 1 digits, the longest run there is.
IntegerShapes(buf) ==
    { sh \in [w : 0..Len(buf), neg : BOOLEAN, n : 1..Len(buf)] :
        LET d == sh.w + (IF sh.neg THEN 1 ELSE 0) + 1
        IN  /\ d + sh.n - 1 <= Len(buf)
            /\ \A k \in 1..sh.w : buf[k] \in Spaces
            /\ buf[sh.w + 1] \notin Spaces
            /\ sh.neg <=> buf[sh.w + 1] = "-"
            /\ \A k \in d..(d + sh.n - 1) : buf[k] \in Digits
            /\ (d + sh.n <= Len(buf)) => buf[d + sh.n] \notin Digits }

RECURSIVE DecimalValue(_, _, _)
DecimalValue(buf, d, n) ==
    IF n = 0 THEN 0
    ELSE DigitVal(buf[d + n - 1]) + 10 * DecimalValue(buf, d, n - 1)

HoldsInteger(buf) == IntegerShapes(buf) # {}
IntegerOf(buf) ==
    LET sh == CHOOSE x \in IntegerShapes(buf) : TRUE
        v == DecimalValue(buf, sh.w + (IF sh.neg THEN 1 ELSE 0) + 1, sh.n)
    IN  IF sh.neg THEN -v ELSE v

ParseDone == prog = "parse" /\ pc = "done"
Readable == p_src = "present" /\ Len(p_buf) > 0

\* C14: read_int_fd and read_int_file return the value of the first signed
\* decimal integer after the leading white space ("  -42\n" gives -42), and
\* report failure (-1) when the file cannot be opened, when the read gives
\* no bytes and when no digit follows the optional sign ("" and "abc").
C14_FirstInteger ==
    ParseDone =>
      /\ (Readable /\ HoldsInteger(p_buf)) =>
            (p_fd_ret = IntegerOf(p_buf) /\ p_file_ret = IntegerOf(p_buf))
      /\ (~Readable \/ ~HoldsInteger(p_buf)) => (p_fd_ret = -1 /\ p_file_ret = -1)
      /\ (Readable /\ p_buf = <<" ", " ", "-", "4", "2", "\n">>) =>
            (p_fd_ret = -42 /\ p_file_ret = -42)
      /\ p_buf \in { <<>>, <<"a", "b", "c">> } => (p_fd_ret = -1 /\ p_file_ret = -1)

\* The file "  -42\n" has been read by both readers.
C14_Witness ==
    /\ ParseDone /\ p_src = "present" /\ p_buf = <<" ", " ", "-", "4", "2", "\n">>
    /\ p_fd_ret = -42 /\ p_file_ret = -42

\* C15: the readers report failure apart from every parsed value: for a
\* content that holds a signed integer (0 and -1 included) the value
\* returned differs from the value returned for an unreadable, empty or
\* digit-less file.
C15_FailureDistinct ==
    (ParseDone /\ Readable /\ HoldsInteger(p_buf)) =>
      \A src \in {"absent", "stale", "present"} :
        \A bad \in { b \in FileBufs : src # "present" \/ ~HoldsInteger(b) } :
            /\ p_fd_ret # read_int_fd(FdOf(src), bad)
            /\ p_file_ret # read_int_file(src, bad)

\* -------------------------------------------------- claims on cpu_logger.c
\* C16: the discovery of cpu_logger.c yields the CPU entries in ascending
\* order of core number, then the thermal zones in ascending order of zone
\* number, whatever the order in which readdir returns the entries: the
\* tables, and with them the columns, depend on the set of entries only.
C16_DiscoveryOrder ==
    (prog = "cpu" /\ pc # "startup") =>
      /\ \A a, b \in 1..Len(cpus) : a < b => cpus[a].cpu_num < cpus[b].cpu_num
      /\ \A a, b \in 1..Len(thermal_zones) :
            a < b => thermal_zones[a].zone_name < thermal_zones[b].zone_name

\* C17: on every exit path of logger.c and combined_gpu_logger.c taken
\* after the sysfs nodes were opened, every descriptor that was opened has
\* been closed when the process returns.
C17_AllClosed ==
    (GpuProg /\ pc = "done") => \A c \in Counters(prog) : fd[c] = "none"

\* ---------------------------------------------- claims on the /proc/stat parsers
HasCore(file, c) == \E k \in 1..Len(file) : file[k].id = c
LineOf(file, c) == file[CHOOSE k \in 1..Len(file) : file[k].id = c].f
RowsDone == prog = "rows" /\ pc = "done"

\* C18: column i of a row is computed from the previous and the current
\* sample of the core declared i on the accounting lines, also when a
\* lower-numbered core is missing or a core disappears between two reads;
\* a column never carries a value computed from another core's lines.  For
\* log.c (get_cpu_core_times, CSV loop) and util_logger.c.
C18_SameCore ==
    RowsDone =>
      /\ \A k \in 1..Len(c_log) :
            c_log[k] # NA =>
              /\ HasCore(c_prev, k - 1) /\ HasCore(c_curr, k - 1)
              /\ c_log[k] = calculate_core_utilization(ParseCpuTime(LineOf(c_prev, k - 1)),
                                                       ParseCpuTime(LineOf(c_curr, k - 1)))
      /\ \A k \in 1..Len(c_util) :
            c_util[k] # Unavailable =>
              /\ HasCore(c_prev, k - 1) /\ HasCore(c_curr, k - 1)
              /\ c_util[k] = core_util(SnapEntry(LineOf(c_prev, k - 1)),
                                       SnapEntry(LineOf(c_curr, k - 1)))

\* C19: in read_cpu_snapshot a line whose declared core number is
\* MAX_CORES or more changes nothing: the snapshot has the entries 0..7 and
\* no other, every entry is the one parsed from the line of its own core
\* (the zeroed entry when there is none), and the aggregate "cpu" line is
\* stored nowhere.
C19_CapacityRange ==
    RowsDone =>
      /\ DOMAIN s1 = 0..(MAX_CORES - 1) /\ DOMAIN s2 = 0..(MAX_CORES - 1)
      /\ Len(c_util) = MAX_CORES
      /\ \A c \in 0..(MAX_CORES - 1) :
            /\ s1[c] = IF HasCore(c_prev, c) THEN SnapEntry(LineOf(c_prev, c)) ELSE AbsentEntry
            /\ s2[c] = IF HasCore(c_curr, c) THEN SnapEntry(LineOf(c_curr, c)) ELSE AbsentEntry

\* A file with the lines cpu0, cpu8 and cpu9 and a file with the aggregate
\* line have been read.
C19_Witness ==
    /\ RowsDone /\ c_prev = FileHigh /\ c_curr = FileAgg
    /\ s1[0].present /\ s2[1].present /\ ~s1[7].present

\* C20: a per-core line counts as parsed only with at least 8 numbers after
\* the label; with fewer the sample is flagged unsuccessful (log.c) or not
\* present (util_logger.c) and no utilization is computed from it.
C20_EightFields ==
    UtilCalcDone =>
      /\ ParseCpuTime(c_prev).successfully_parsed <=> Len(c_prev) >= 8
      /\ SnapEntry(c_prev).present <=> Len(c_prev) >= 8
      /\ (Len(c_prev) < 8 \/ Len(c_curr) < 8) =>
            (c_log = Unavailable /\ c_util = Unavailable)

\* C21: scan_thermal_zones includes a thermal zone if and only if its type
\* contains "cpu" compared without regard to case ("Cpu-thermal", "cPu0").
LowerCase(ch) == CASE ch = "C" -> "c" [] ch = "P" -> "p" [] ch = "U" -> "u" [] OTHER -> ch
ContainsCpuNoCase(type) ==
    \E k \in 1..(Len(type) - 2) :
        [j \in 1..3 |-> LowerCase(type[k + j - 1])] = <<"c", "p", "u">>

C21_CaseInsensitive ==
    (prog = "cpu" /\ pc # "startup") =>
      \A e \in 1..Len(thermal_dir) :
          (\E k \in 1..Len(thermal_zones) : thermal_zones[k].zone_name = thermal_dir[e].zone)
            <=> ContainsCpuNoCase(thermal_dir[e].type)

\* C22: log.c holds at most two snapshot buffers at any point; after each
\* tick, whether it wrote a row or was skipped, the only buffer left is the
\* one kept as previous, the other one having been freed once; a tick
\* abandoned on a signal leaves its buffer to the cleanup; at exit no
\* snapshot buffer is allocated and none was freed twice.
C22_TwoBuffers ==
    prog = "log" =>
      /\ Cardinality(StatsBlocks(heap)) <= 2
      /\ ~bad_free
      /\ pc \in {"init_sleep", "wait_check", "sleep", "top"} =>
            /\ curr_addr = NullPtr
            /\ StatsBlocks(heap) = {Block("stats", prev_addr)}
      /\ pc \in {"check", "process", "cleanup"} =>
            StatsBlocks(heap) = { Block("stats", x) : x \in {prev_addr, curr_addr} \ {NullPtr} }
      /\ pc = "done" => StatsBlocks(heap) = {}

\* A run that wrote two rows, balked at a failed capture or not, and was
\* interrupted with the third capture in hand.
C22_Witness ==
    /\ prog = "log" /\ pc = "done" /\ exit_status = 0
    /\ csv_seconds_counter = 2 /\ sig_pc = "check" /\ tick = 3

\* C23: with a duration of N seconds and no signal, log.c starts at most N
\* loop iterations before it reaches its terminal state, also when captures
\* fail on some or all ticks.
C23_BoundedRun ==
    (prog = "log" /\ run_duration_seconds > 0 /\ sig_pc = "none") =>
      tick <= run_duration_seconds

\* The two programs that compute utilization from a previous and a current
\* snapshot, log.c and util_logger.c.
SpecSnapshots == (InitLog \/ InitUtil) /\ [][NextLog \/ NextUtil]_vars

CaptureFailed == current_num_cpu_cores <= 0 \/ curr_core_stats = <<>>

\* C24: in log.c and util_logger.c the previous samples of a row-writing
\* tick are those of the most recent earlier successful capture (the
\* initial one at first): the previous snapshot is replaced only by the
\* startup capture and by the hand-over of a tick that wrote its row, which
\* puts the current snapshot in its place; a failed capture leaves it as it
\* was and writes no row; the row is computed from the previous snapshot.
C24_Step ==
    /\ prog = "log" =>
          /\ prev_core_stats' # prev_core_stats => pc \in {"startup", "process", "cleanup"}
          /\ (pc = "process" /\ pc' # pc /\ CaptureFailed) =>
                prev_core_stats' = prev_core_stats /\ rows' = rows
          /\ (pc = "process" /\ pc' # pc /\ ~CaptureFailed) =>
                /\ prev_core_stats' = curr_core_stats
                /\ (csv_file = "open" /\ prev_num_cpu_cores <= Len(prev_core_stats)) =>
                      last_row'.cols = CsvRow(prev_core_stats, prev_num_cpu_cores,
                                              curr_core_stats, current_num_cpu_cores)
    /\ prog = "util" =>
          /\ s1' # s1 => pc \in {"startup", "tick"}
          /\ (pc = "tick" /\ rows' = rows) => s1' = s1
          /\ (pc = "tick" /\ rows' = rows + 1) =>
                /\ s1' = s2'
                /\ last_row'.cols = <<last_row'.cols[1]>> \o UtilRow(s1, s2')

StepsToEnd(p) ==
    CASE p = "done" -> 0
      [] p = "cleanup" -> 1
      [] p = "top" -> 2
      [] p = "check" -> 2
      [] p = "capture" -> 3
      [] p = "sleep" -> 3
      [] p = "init_sleep" -> 3
      [] p = "wait_check" -> 4
      [] p = "startup" -> 4
      [] p = "process" -> 5

\* C25: log.c honours a cancellation within one tick.  After SIGINT at most
\* one further row is written, and only when the signal arrived after the
\* test that follows the reads (line 355): a signal that arrives before or
\* while the counters are read discards the tick.  The further row is a
\* whole one: its sample number and one column per header core.  Once
\* keep_running is 0 no new iteration starts, main is never stuck before its
\* end and each of its steps brings the end closer: at most five steps are
\* left.
C25_Rows ==
    (prog = "log" /\ sig_pc # "none") =>
      /\ rows <= rows_at_sig + 1
      /\ sig_pc # "process" => rows = rows_at_sig
      /\ sig_pc \in {"capture", "check"} => rows = rows_at_sig

C25_Progress ==
    (prog = "log" /\ ~keep_running /\ pc # "done") => ENABLED LogMain

C25_Step ==
    prog = "log" =>
      /\ ~keep_running =>
            /\ tick' = tick
            /\ pc' # pc => StepsToEnd(pc') < StepsToEnd(pc)
      /\ rows' = rows + 1 =>
            /\ last_row'.sample = csv_seconds_counter
            /\ Len(last_row'.cols) = prev_num_cpu_cores

C25_WithinOneTick ==
    /\ []C25_Rows
    /\ []C25_Progress
    /\ [][C25_Step]_vars

\* A signal that arrived after the test of line 355: the tick's row was
\* written and the program ended.
C25_Witness ==
    /\ prog = "log" /\ pc = "done" /\ sig_pc = "process" /\ rows = rows_at_sig + 1

\* C26: every index with which the console loop (lines 381-390) and the
\* CSV loop (lines 403-408) of log.c read prev_core_stats[i] and
\* curr_core_stats[i] is smaller than the number of elements allocated
\* for that array, in quiet and non-quiet mode, whatever the sequence of
\* core counts.  Stated on the state in which the loops are about to run.
ConsoleReads ==
    IF quiet_mode THEN {}
    ELSE { i \in 0..(current_num_cpu_cores - 1) : i < prev_num_cpu_cores }

CsvReads ==
    IF csv_file # "open" THEN {}
    ELSE { i \in 0..(prev_num_cpu_cores - 1) : i < current_num_cpu_cores }

C26_IndexInRange ==
    (prog = "log" /\ pc = "process" /\ ~CaptureFailed) =>
      \A i \in ConsoleReads \cup CsvReads :
          i < Len(prev_core_stats) /\ i < Len(curr_core_stats)

\* C27: when log.c ends, every resource acquired at startup has been
\* released: the sensor path strings and their array, the per-sensor value
\* buffers and the custom_sensor_values array, and the CSV file.
C27_AllReleased ==
    (prog = "log" /\ pc = "done") =>
      /\ heap = {}
      /\ ~bad_free
      /\ csv_file # "open"

\* The utilization of util_logger.c when the total of a line is the sum of
\* its first eight fields only.
EightFieldUtil(f1, f2) ==
    LET dt == delta_u64(U64(TotalOf(f1)), U64(TotalOf(f2)))
        di == delta_u64(U64(IdleLikeOf(f1)), U64(IdleLikeOf(f2)))
    IN  IF dt > 0 /\ di <= dt THEN [num |-> 100 * (dt - di), den |-> dt] ELSE Unavailable

SameValue(u, v) == u.num * v.den = v.num * u.den

\* C28: in util_logger.c the total of a core is idle + iowait + user + nice
\* + system + irq + softirq + steal only: the guest and guest_nice fields
\* of a line do not change the utilization.
C28_GuestIgnored ==
    (UtilCalcDone /\ Len(c_prev) >= 8 /\ Len(c_curr) >= 8) =>
      SameValue(c_util, EightFieldUtil(c_prev, c_curr))

\* ------------------------------------------------------ all five programs
InitLoops == InitLog \/ InitUtil \/ InitGpu \/ InitCpu

NextLoops == NextLog \/ NextUtil \/ NextGpu \/ NextCpu

SpecLoops == InitLoops /\ [][NextLoops]_vars

Init == InitCalc \/ InitParse \/ InitRows \/ InitLoops

Next == NextCalc \/ NextParse \/ NextRows \/ NextLoops

Spec == Init /\ [][Next]_vars

====
